---- MODULE Spec2Model ----
(***************************************************************************)
(* A model of alleycat.py: the include/exclude history of the graph view   *)
(* (class AlleyCatGraphHistory), the backward path search                  *)
(* (AlleyCat._build_paths), the constructors that resolve two addresses to *)
(* the nodes of a search (AlleyCatFunctionPaths, AlleyCatCodePaths) and    *)
(* the handlers of the graph view (AlleyCatGraph).                         *)
(***************************************************************************)
EXTENDS Integers, Sequences, FiniteSets, TLC

\* ------------------------------------------------------------------ bounds

\* Longest combined history the model lets add_include/add_exclude build.
MaxHist == 3
\* Number of distinct node addresses a user can click on.
NumObjs == 2

Objs == 1..NumObjs

\* Number of functions of the analysed program (the nodes of the call graph).
NumFuncs == 4
\* Most cross-references the analysed program holds.
MaxXrefs == 5
\* Largest small value of the limit tried besides ALLEYCAT_LIMIT itself.
MaxLimit == 3

\* Number of addresses of the analysed program when functions and basic
\* blocks span several addresses.
NumAddrs == 3
\* Most cross-references between such addresses.
MaxAddrXrefs == 1
\* Most paths the graph view is given to plot.
MaxResults == 2

\* ------------------------------------------------------- program constants

INCLUDE_ACTION == 0
EXCLUDE_ACTION == 1
ALLEYCAT_LIMIT == 10000
\* idc.BADADDR (all address bits set), the address no function starts at,
\* kept here within a signed 32-bit integer.
BADADDR == 2147483647

\* ------------------------------------------------------------------- state

VARIABLES
    \* AlleyCatGraphHistory fields
    history, includes, excludes,
    history_index, include_index, exclude_index,
    \* TRUE when the last call ended in a Python exception
    raised,
    \* name of the last call made on the history object
    op,
    \* reference linear history run side by side (observer, not program state)
    ref, ref_cursor,
    \* shape of the call sequence since construction/reset (observer)
    phase, nundo, nredo,
    \* constraints <<action, node>> added since construction/reset, and those
    \* of them that an add found inactive and so discarded (observer)
    added, discarded,
    \* the database: the cross-references <<frm, to>> of the analysed program
    xrefs,
    \* AlleyCat: the arguments of _build_paths and self.limit
    start, end, limit,
    \* AlleyCat: self.paths and the local partial_paths
    paths, partial_paths,
    \* _build_paths: position, the callers the for loop has still to visit,
    \* and base_path
    pc, callers, base_path,
    \* AlleyCatGraph: the paths to plot, whether Show() has registered the
    \* commands, and the two pending picks
    results, shown, include_on_click, exclude_on_click,
    \* AlleyCatGraph: the graph built by OnRefresh (node ids are those AddNode
    \* hands out, 0, 1, 2, ...; edges as pairs <<parent id, child id>>)
    nodes_id2ea, edges, start_nodes, end_nodes, edge_nodes,
    \* indices of the paths of results the last OnRefresh plotted (observer)
    drawn,
    \* name of the last handler of the graph view that ran (observer)
    cmd,
    \* the database: for each address, the entry of the function
    \* (idaapi.get_func) and of the basic block (idaapi.FlowChart) holding
    \* it, 0 when none does
    func_of, block_of,
    \* the class constructed, its arguments, and the AlleyCatException it
    \* raised as <<message, address>>
    klass, start_ea, end_ea, error

hvars == <<history, includes, excludes, history_index, include_index,
           exclude_index, raised, op>>
refvars == <<ref, ref_cursor, phase, nundo, nredo>>
disvars == <<added, discarded>>
obsvars == <<refvars, disvars>>

dbvars == <<xrefs, start, end, limit>>
pvars == <<paths, partial_paths, pc, callers, base_path>>

clickvars == <<include_on_click, exclude_on_click>>
graphvars == <<nodes_id2ea, edges, start_nodes, end_nodes, edge_nodes, drawn>>
gvars == <<results, shown, clickvars, graphvars, cmd>>

scopevars == <<func_of, block_of, klass, start_ea, end_ea, error>>

vars == <<hvars, obsvars, dbvars, pvars, gvars, scopevars>>

\* --------------------------------------------------------- Python helpers

Min(a, b) == IF a < b THEN a ELSE b

\* s[0:stop] for a stop >= 0 (Python clamps the stop to len(s)).
PySlice(s, stop) == SubSeq(s, 1, Min(stop, Len(s)))

\* TRUE when s[i] is a valid Python subscript (negative i counts from the end).
PyInRange(s, i) == -Len(s) <= i /\ i < Len(s)

\* s[i] with Python's 0-based and negative indexing.
PyIndex(s, i) == IF i >= 0 THEN s[i + 1] ELSE s[Len(s) + i + 1]

Range(s) == {s[i] : i \in 1..Len(s)}

\* ---------------------------------------------------- AlleyCatGraphHistory

\* get_includes(): set(self.includes[0:self.include_index + 1])
get_includes == Range(PySlice(includes, include_index + 1))

\* get_excludes(): set(self.excludes[0:self.exclude_index + 1])
get_excludes == Range(PySlice(excludes, exclude_index + 1))

\* update_history: the condition under which the combined log is truncated.
\* It is evaluated after the caller appended to its own log (exc is that log).
HistoryTruncates(exc) == exc # <<>> /\ Len(history) - 1 # history_index

\* update_history(action): the new combined log.
update_history(action, exc) ==
    Append(IF HistoryTruncates(exc)
           THEN PySlice(history, history_index + 1)
           ELSE history, action)

\* add_include: the include log after the optional truncation and the append.
add_include_log(obj) ==
    Append(IF includes # <<>> /\ Len(includes) - 1 # include_index
           THEN PySlice(includes, include_index + 1)
           ELSE includes, obj)

\* add_exclude: the exclude log after the optional truncation and the append.
add_exclude_log(obj) ==
    Append(IF Len(excludes) - 1 # exclude_index
           THEN PySlice(excludes, exclude_index + 1)
           ELSE excludes, obj)

\* undo() without the `>= 0` guard.
UndoCursorUnguarded(i) == i - 1

\* undo(): the decrement of a per-log cursor, guarded by `>= 0`.
UndoCursor(i) == IF i >= 0 THEN i - 1 ELSE i

\* redo(): the increment of a per-log cursor, guarded by `< len(log) - 1`.
RedoCursor(i, log) == IF i < Len(log) - 1 THEN i + 1 ELSE i

\* undo(): history_index -= 1, floored at 0.
UndoHistoryIndex(i) == IF i - 1 < 0 THEN 0 ELSE i - 1

\* redo(): history_index += 1, capped at len(history) - 1.
RedoHistoryIndex(i) == IF i + 1 >= Len(history) THEN Len(history) - 1 ELSE i + 1

\* ---------------------------------------------------------------- observer

\* The reference history of the specification: one chronological list of
\* <<action, node>> with one cursor counting the active actions.
RefActive(k, action) ==
    {ref[i][2] : i \in {j \in 1..Min(k, Len(ref)) : ref[j][1] = action}}

RefIncludes == RefActive(ref_cursor, INCLUDE_ACTION)
RefExcludes == RefActive(ref_cursor, EXCLUDE_ACTION)

RefAdd(action, obj) ==
    /\ ref' = Append(SubSeq(ref, 1, ref_cursor), <<action, obj>>)
    /\ ref_cursor' = Len(ref')

RefUndo ==
    /\ ref_cursor' = IF ref_cursor > 0 THEN ref_cursor - 1 ELSE ref_cursor
    /\ ref' = ref

RefRedo ==
    /\ ref_cursor' = IF ref_cursor < Len(ref) THEN ref_cursor + 1 ELSE ref_cursor
    /\ ref' = ref

RefReset ==
    /\ ref' = <<>> /\ ref_cursor' = 0
    /\ phase' = "adds" /\ nundo' = 0 /\ nredo' = 0

\* The constraints the history reports as active.
Active ==
    {<<INCLUDE_ACTION, n>> : n \in get_includes}
        \cup {<<EXCLUDE_ACTION, n>> : n \in get_excludes}

\* An add discards every constraint added before it that is inactive when it
\* is called (undone and not redone); the added constraint itself is live.
NoteAdd(action, obj) ==
    /\ added' = added \cup {<<action, obj>>}
    /\ discarded' = (discarded \cup (added \ Active)) \ {<<action, obj>>}

\* The shape of the calls so far: "adds" (n adds), "undos" (then k <= n undos),
\* "redos" (then j <= k redos), "other" (anything else).
ShapeAdd ==
    /\ phase' = IF phase = "adds" THEN "adds" ELSE "other"
    /\ UNCHANGED <<nundo, nredo>>

ShapeUndo ==
    IF phase \in {"adds", "undos"} /\ nundo < Len(ref)
    THEN phase' = "undos" /\ nundo' = nundo + 1 /\ nredo' = nredo
    ELSE phase' = "other" /\ UNCHANGED <<nundo, nredo>>

ShapeRedo ==
    IF phase \in {"undos", "redos"} /\ nredo < nundo
    THEN phase' = "redos" /\ nredo' = nredo + 1 /\ nundo' = nundo
    ELSE phase' = "other" /\ UNCHANGED <<nundo, nredo>>

\* ----------------------------------------------------------------- actions

\* __init__ / reset(): every list empty, every index 0.
HInit ==
    /\ history = <<>> /\ includes = <<>> /\ excludes = <<>>
    /\ history_index = 0 /\ include_index = 0 /\ exclude_index = 0
    /\ raised = FALSE
    /\ op = "init"
    /\ ref = <<>> /\ ref_cursor = 0
    /\ phase = "adds" /\ nundo = 0 /\ nredo = 0
    /\ added = {} /\ discarded = {}

reset ==
    /\ history' = <<>> /\ includes' = <<>> /\ excludes' = <<>>
    /\ history_index' = 0 /\ include_index' = 0 /\ exclude_index' = 0
    /\ raised' = FALSE
    /\ op' = "reset"

add_include(obj) ==
    /\ Len(update_history(INCLUDE_ACTION, excludes)) <= MaxHist
    /\ includes' = add_include_log(obj)
    /\ include_index' = Len(includes') - 1
    /\ history' = update_history(INCLUDE_ACTION, excludes)
    /\ history_index' = Len(history') - 1
    /\ raised' = FALSE
    /\ op' = "add_include"
    /\ UNCHANGED <<excludes, exclude_index>>

add_exclude(obj) ==
    /\ Len(update_history(EXCLUDE_ACTION, add_exclude_log(obj))) <= MaxHist
    /\ excludes' = add_exclude_log(obj)
    /\ exclude_index' = Len(excludes') - 1
    /\ history' = update_history(EXCLUDE_ACTION, excludes')
    /\ history_index' = Len(history') - 1
    /\ raised' = FALSE
    /\ op' = "add_exclude"
    /\ UNCHANGED <<includes, include_index>>

undo ==
    /\ IF history # <<>>
       THEN LET action == PyIndex(history, history_index) IN
            /\ include_index' = IF action = INCLUDE_ACTION
                                THEN UndoCursor(include_index)
                                ELSE include_index
            /\ exclude_index' = IF action = EXCLUDE_ACTION
                                THEN UndoCursor(exclude_index)
                                ELSE exclude_index
            /\ history_index' = UndoHistoryIndex(history_index)
       ELSE UNCHANGED <<include_index, exclude_index, history_index>>
    /\ raised' = FALSE
    /\ op' = "undo"
    /\ UNCHANGED <<history, includes, excludes>>

redo ==
    /\ history_index' = RedoHistoryIndex(history_index)
    /\ IF PyInRange(history, history_index')
       THEN LET action == PyIndex(history, history_index') IN
            /\ include_index' = IF action = INCLUDE_ACTION
                                THEN RedoCursor(include_index, includes)
                                ELSE include_index
            /\ exclude_index' = IF action = EXCLUDE_ACTION
                                THEN RedoCursor(exclude_index, excludes)
                                ELSE exclude_index
            /\ raised' = FALSE
       ELSE \* IndexError: list index out of range
            /\ raised' = TRUE
            /\ UNCHANGED <<include_index, exclude_index>>
    /\ op' = "redo"
    /\ UNCHANGED <<history, includes, excludes>>

\* The calls a graph view makes on its history, nothing observed.
AddInclude == \E obj \in Objs : add_include(obj)
    /\ UNCHANGED <<obsvars, dbvars, scopevars, gvars, pvars>>
AddExclude == \E obj \in Objs : add_exclude(obj)
    /\ UNCHANGED <<obsvars, dbvars, scopevars, gvars, pvars>>
Undo == undo /\ UNCHANGED <<obsvars, dbvars, scopevars, gvars, pvars>>
Redo == redo /\ UNCHANGED <<obsvars, dbvars, scopevars, gvars, pvars>>
Reset == reset /\ UNCHANGED <<obsvars, dbvars, scopevars, gvars, pvars>>

\* The same calls with the reference history run side by side.
ReplayAddInclude ==
    \E obj \in Objs :
        /\ add_include(obj) /\ RefAdd(INCLUDE_ACTION, obj) /\ ShapeAdd
        /\ UNCHANGED <<disvars, dbvars, scopevars, gvars, pvars>>
ReplayAddExclude ==
    \E obj \in Objs :
        /\ add_exclude(obj) /\ RefAdd(EXCLUDE_ACTION, obj) /\ ShapeAdd
        /\ UNCHANGED <<disvars, dbvars, scopevars, gvars, pvars>>
ReplayUndo == undo /\ RefUndo /\ ShapeUndo
    /\ UNCHANGED <<disvars, dbvars, scopevars, gvars, pvars>>
ReplayRedo == redo /\ RefRedo /\ ShapeRedo
    /\ UNCHANGED <<disvars, dbvars, scopevars, gvars, pvars>>
ReplayReset == reset /\ RefReset
    /\ UNCHANGED <<disvars, dbvars, scopevars, gvars, pvars>>

\* The same calls with the discarded constraints noted.
NotedAddInclude ==
    \E obj \in Objs :
        /\ add_include(obj) /\ NoteAdd(INCLUDE_ACTION, obj)
        /\ UNCHANGED <<refvars, dbvars, scopevars, gvars, pvars>>
NotedAddExclude ==
    \E obj \in Objs :
        /\ add_exclude(obj) /\ NoteAdd(EXCLUDE_ACTION, obj)
        /\ UNCHANGED <<refvars, dbvars, scopevars, gvars, pvars>>
NotedUndo == undo /\ UNCHANGED <<obsvars, dbvars, scopevars, gvars, pvars>>
NotedRedo == redo /\ UNCHANGED <<obsvars, dbvars, scopevars, gvars, pvars>>
NotedReset ==
    /\ reset /\ added' = {} /\ discarded' = {}
    /\ UNCHANGED <<refvars, dbvars, scopevars, gvars, pvars>>

\* ------------------------------------------------------------ the database

\* Entry addresses of the functions. An address stands for the function it
\* lies in; address 0 lies in no function.
Funcs == 1..NumFuncs

\* Every set of at most MaxXrefs references <<frm, to>> between functions
\* (references from outside any function are dropped by Callers and are not
\* generated).
XrefSets == {X \in SUBSET (Funcs \X Funcs) : Cardinality(X) <= MaxXrefs}

\* idaapi.get_func(ea).start_ea, or 0 (None) when ea lies in no function.
get_code_block(ea) == IF ea \in DOMAIN func_of THEN func_of[ea] ELSE 0

\* idautils.XrefsTo(callee): the source addresses of the references to callee.
XrefsTo(callee) == {x[1] : x \in {y \in xrefs : y[2] = callee}}

\* The unique set of callers built by the for loop over XrefsTo(callee).
Callers(callee) ==
    {get_code_block(frm) : frm \in {f \in XrefsTo(callee) : get_code_block(f) # 0}}

\* ------------------------------------------------------------------ AlleyCat

\* The first node of a path taken for its frontier.
First(s) == s[1]

\* partial_paths[0][-1]: the frontier of a partial path.
Last(s) == s[Len(s)]

\* The path left in search order (the reversal forgotten).
ReverseForgotten(s) == s

\* path[::-1]
Reverse(s) == [i \in 1..Len(s) |-> s[Len(s) + 1 - i]]

\* _add_path(path): append unless already present.
add_path(ps, path) == IF path \in Range(ps) THEN ps ELSE Append(ps, path)

\* The while condition without the two comparisons with self.limit.
WhileCondNoLimit == partial_paths # <<>>

\* The condition of the while loop of _build_paths.
WhileCond ==
    /\ partial_paths # <<>>
    /\ Len(paths) < limit
    /\ Len(partial_paths) < limit

\* The loop-back test left out.
LoopsBackIgnored(caller, base) == FALSE

\* `if caller in base_path: continue`
LoopsBack(caller, base) == caller \in Range(base)

\* The callers looked up whatever the length of the head partial path.
FoundCallersNoCap == Callers(Last(Head(partial_paths)))

\* The callers found for the head partial path (none once it is limit long).
FoundCallers ==
    IF Len(Head(partial_paths)) < limit
    THEN Callers(Last(Head(partial_paths)))
    ELSE {}

\* __init__ and the first line of _build_paths, on every database of at most
\* MaxXrefs references between functions. The functions are interchangeable,
\* so every call is a renaming of one with start = 1 and end one of: start
\* itself, another function, BADADDR.
PInit ==
    /\ xrefs \in XrefSets
    /\ start = 1
    /\ end \in {1, 2, BADADDR}
    /\ limit \in (0..MaxLimit) \cup {ALLEYCAT_LIMIT}
    /\ paths = <<>>
    /\ partial_paths = <<<<start>>>>
    /\ pc = "while"
    /\ callers = {}
    /\ base_path = <<>>

\* No enumeration is running (the graph view alone is modelled).
PIdle ==
    /\ xrefs = {}
    /\ start = 1 /\ end = 1 /\ limit = ALLEYCAT_LIMIT
    /\ paths = <<>>
    /\ partial_paths = <<>>
    /\ pc = "idle"
    /\ callers = {}
    /\ base_path = <<>>

\* One iteration whose frontier has callers: pop the head, start the for loop.
Expand ==
    /\ pc = "while" /\ WhileCond
    /\ FoundCallers # {}
    /\ base_path' = Head(partial_paths)
    /\ partial_paths' = Tail(partial_paths)
    /\ callers' = FoundCallers
    /\ pc' = "for"
    /\ UNCHANGED <<paths, dbvars, scopevars, gvars, hvars, obsvars>>

\* One pass of the for loop that puts the new partial path at the head of
\* the queue (depth first).
ForCallerDepthFirst ==
    /\ pc = "for"
    /\ \E caller \in callers :
         /\ IF LoopsBack(caller, base_path)
            THEN UNCHANGED <<paths, partial_paths>>
            ELSE IF caller = end
            THEN /\ paths' = add_path(paths, Reverse(Append(base_path, caller)))
                 /\ UNCHANGED partial_paths
            ELSE /\ partial_paths' = <<Append(base_path, caller)>> \o partial_paths
                 /\ UNCHANGED paths
         /\ callers' = callers \ {caller}
         /\ pc' = IF callers' = {} THEN "while" ELSE "for"
    /\ UNCHANGED <<base_path, dbvars, scopevars, gvars, hvars, obsvars>>

\* One pass of `for caller in callers`, in any iteration order of the set.
ForCaller ==
    /\ pc = "for"
    /\ \E caller \in callers :
         /\ IF LoopsBack(caller, base_path)
            THEN UNCHANGED <<paths, partial_paths>>
            ELSE IF caller = end
            THEN /\ paths' = add_path(paths, Reverse(Append(base_path, caller)))
                 /\ UNCHANGED partial_paths
            ELSE /\ partial_paths' = Append(partial_paths, Append(base_path, caller))
                 /\ UNCHANGED paths
         /\ callers' = callers \ {caller}
         /\ pc' = IF callers' = {} THEN "while" ELSE "for"
    /\ UNCHANGED <<base_path, dbvars, scopevars, gvars, hvars, obsvars>>

\* No callers and the end node is not in the head path: drop it.
Discard ==
    /\ pc = "while" /\ WhileCond
    /\ FoundCallers = {}
    /\ end \notin Range(Head(partial_paths))
    /\ partial_paths' = Tail(partial_paths)
    /\ UNCHANGED <<paths, pc, callers, base_path, dbvars, scopevars, gvars,
                   hvars, obsvars>>

\* Every head path without callers taken for a finished path.
FinalizeAny ==
    /\ pc = "while" /\ WhileCond
    /\ FoundCallers = {}
    /\ paths' = add_path(paths, Reverse(Head(partial_paths)))
    /\ partial_paths' = Tail(partial_paths)
    /\ UNCHANGED <<pc, callers, base_path, dbvars, scopevars, gvars, hvars,
                   obsvars>>

\* No callers and the end node is in the head path: it is a finished path.
Finalize ==
    /\ pc = "while" /\ WhileCond
    /\ FoundCallers = {}
    /\ end \in Range(Head(partial_paths))
    /\ paths' = add_path(paths, Reverse(Head(partial_paths)))
    /\ partial_paths' = Tail(partial_paths)
    /\ UNCHANGED <<pc, callers, base_path, dbvars, scopevars, gvars, hvars,
                   obsvars>>

\* The while condition fails: _build_paths returns.
Return ==
    /\ pc = "while" /\ ~WhileCond
    /\ pc' = "done"
    /\ UNCHANGED <<paths, partial_paths, callers, base_path, dbvars,
                   scopevars, gvars, hvars, obsvars>>

\* ------------------------------- AlleyCatFunctionPaths and AlleyCatCodePaths

Addrs == 1..NumAddrs

\* The ways functions can lie over the addresses: a function is a run of
\* addresses mapped to its first one; an address mapped to 0 is in none.
FuncLayouts ==
    {f \in [Addrs -> 0..NumAddrs] :
        \A a \in Addrs :
            f[a] # 0 => f[a] <= a /\ \A b \in f[a]..a : f[b] = f[a]}

\* The ways basic blocks can lie inside the functions f (an address of a
\* function may be left without a block).
BlockLayouts(f) ==
    {g \in [Addrs -> 0..NumAddrs] :
        \A a \in Addrs :
            g[a] # 0 =>
                /\ g[a] <= a /\ \A b \in g[a]..a : g[b] = g[a]
                /\ f[a] # 0 /\ f[g[a]] = f[a]}

\* Every set of at most MaxAddrXrefs references <<frm, to>> between addresses.
AddrXrefSets == {X \in SUBSET (Addrs \X Addrs) : Cardinality(X) <= MaxAddrXrefs}

\* [block for block in idaapi.FlowChart(func)]: the blocks of the function
\* entered at func, as pairs <<start_ea, end_ea>>.
FlowChart(func) ==
    {<<s, 1 + CHOOSE a \in Addrs :
              block_of[a] = s /\ \A b \in Addrs : block_of[b] = s => b <= a>> :
        s \in {a \in Addrs : block_of[a] = a /\ func_of[a] = func}}

\* The lookup with the test against block.end_ea left out.
get_block_open_ended(blocks, ea) ==
    LET hit == {block \in blocks : block[1] <= ea} IN
    IF hit = {} THEN 0 ELSE (CHOOSE block \in hit : TRUE)[1]

\* _get_code_block(ea) on self.blocks: the start_ea of the block whose range
\* holds ea, or 0 (None).
get_block(blocks, ea) ==
    LET hit == {block \in blocks : block[1] <= ea /\ ea < block[2]} IN
    IF hit = {} THEN 0 ELSE (CHOOSE block \in hit : TRUE)[1]

NoError == <<"none", 0>>

\* AlleyCat.__init__(start, end): the first lines of the search.
AlleyCatInit(s, e) ==
    /\ start' = s /\ end' = e
    /\ limit' = ALLEYCAT_LIMIT
    /\ paths' = <<>>
    /\ partial_paths' = <<<<s>>>>
    /\ pc' = "while"
    /\ UNCHANGED error

\* raise AlleyCatException(message % ea): nothing is constructed.
Raise(message, ea) ==
    /\ error' = <<message, ea>>
    /\ pc' = "raised"
    /\ UNCHANGED <<start, end, limit, paths, partial_paths>>

\* No constructor of the two classes is running: AlleyCat is called on
\* function entries, each function and block being one address.
ScopeIdle ==
    /\ func_of = [f \in Funcs |-> f]
    /\ block_of = [f \in Funcs |-> f]
    /\ klass = "AlleyCat"
    /\ start_ea = 0 /\ end_ea = 0
    /\ error = NoError

\* One of the two classes is about to be constructed on two addresses of a
\* database within the bounds.
ScopeInit ==
    /\ func_of \in FuncLayouts
    /\ block_of \in BlockLayouts(func_of)
    /\ xrefs \in AddrXrefSets
    /\ klass \in {"AlleyCatFunctionPaths", "AlleyCatCodePaths"}
    /\ start_ea \in Addrs /\ end_ea \in Addrs
    /\ error = NoError
    /\ start = 0 /\ end = 0 /\ limit = ALLEYCAT_LIMIT
    /\ paths = <<>> /\ partial_paths = <<>>
    /\ pc = "init"
    /\ callers = {} /\ base_path = <<>>

\* AlleyCatFunctionPaths.__init__(start_ea, end_ea).
FunctionPathsInit ==
    /\ pc = "init" /\ klass = "AlleyCatFunctionPaths"
    /\ IF get_code_block(end_ea) = 0
       THEN Raise("not part of a function", end_ea)
       ELSE AlleyCatInit(get_code_block(end_ea),
                         IF get_code_block(start_ea) = 0 THEN BADADDR
                         ELSE get_code_block(start_ea))
    /\ UNCHANGED <<xrefs, callers, base_path, func_of, block_of, klass,
                   start_ea, end_ea, hvars, obsvars, gvars>>

\* AlleyCatCodePaths.__init__(start_ea, end_ea).
CodePathsInit ==
    /\ pc = "init" /\ klass = "AlleyCatCodePaths"
    /\ LET end_func == get_code_block(end_ea)
           start_func == get_code_block(start_ea)
           blocks == FlowChart(start_func)
           end_block == get_block(blocks, start_ea)
           start_block == get_block(blocks, end_ea)
       IN  IF start_func = 0 THEN Raise("not part of a function", start_ea)
           ELSE IF end_func = 0 THEN Raise("not part of a function", end_ea)
           ELSE IF start_func # end_func
           THEN Raise("not part of the same function", 0)
           ELSE IF end_block = 0 THEN Raise("no code block", start_ea)
           ELSE IF start_block = 0 THEN Raise("no code block", end_ea)
           ELSE AlleyCatInit(start_block, end_block)
    /\ UNCHANGED <<xrefs, callers, base_path, func_of, block_of, klass,
                   start_ea, end_ea, hvars, obsvars, gvars>>

\* ------------------------------------------------------------ AlleyCatGraph

\* The simple non-empty paths over the nodes a user can click on (the
\* searches of find_and_plot_paths return such paths).
ObjPaths ==
    {q \in UNION {[1..k -> Objs] : k \in 1..NumObjs} :
        \A i, j \in 1..Len(q) : i # j => q[i] # q[j]}

\* The lists of at most MaxResults distinct paths find_and_plot_paths gathers
\* from its searches; it opens no view on an empty list.
ResultLists ==
    {r \in UNION {[1..k -> ObjPaths] : k \in 1..MaxResults} :
        \A i, j \in 1..Len(r) : i # j => r[i] # r[j]}

\* The path passes when it holds at least one of the includes.
PassesFilterAnyInclude(path, inc, exc) ==
    /\ (inc = {} \/ (Range(path) \cap inc) # {})
    /\ (Range(path) \cap exc) = {}

\* The two tests of OnRefresh that do not `continue`.
PassesFilter(path, inc, exc) ==
    /\ ~((Range(path) \cap inc) # inc)
    /\ ~((Range(path) \cap exc) # {})

\* The graph after self.clear() and the six assignments that empty it.
ClearedGraph ==
    [id2ea |-> <<>>, edges |-> {}, starts |-> <<>>, ends |-> <<>>,
     edgens |-> <<>>, drawn |-> <<>>]

\* nodes_ea2id[ea]: the id AddNode gave the node of ea.
NodeId(id2ea, ea) == (CHOOSE i \in 1..Len(id2ea) : id2ea[i] = ea) - 1

\* `for ea in path`: add the nodes not yet in the graph and an edge from
\* each node of the path to the next (parent -1 stands for None).
RECURSIVE DrawNodes(_, _, _)
DrawNodes(g, path, parent) ==
    IF path = <<>> THEN g
    ELSE LET ea == Head(path)
             id2ea == IF ea \in Range(g.id2ea) THEN g.id2ea
                      ELSE Append(g.id2ea, ea)
             this == NodeId(id2ea, ea)
             newedges == IF parent # -1 THEN g.edges \cup {<<parent, this>>}
                         ELSE g.edges
         IN  DrawNodes([g EXCEPT !.id2ea = id2ea, !.edges = newedges],
                       Tail(path), this)

\* The try block: the three appends, each one made unless an earlier index
\* failed (path[-2] fails on a path of one node).
MarkEnds(g, path) ==
    IF ~PyInRange(path, 0) THEN g
    ELSE LET g1 == [g EXCEPT !.starts = Append(@, NodeId(g.id2ea, PyIndex(path, 0))),
                             !.ends = Append(@, NodeId(g.id2ea, PyIndex(path, -1)))]
         IN  IF ~PyInRange(path, -2) THEN g1
             ELSE [g1 EXCEPT !.edgens = Append(@, NodeId(g.id2ea, PyIndex(path, -2)))]

\* `for path in self.results`, from the i-th path on.
RECURSIVE DrawPaths(_, _, _, _)
DrawPaths(g, i, inc, exc) ==
    IF i > Len(results) THEN g
    ELSE IF ~PassesFilter(results[i], inc, exc)
    THEN DrawPaths(g, i + 1, inc, exc)
    ELSE LET g1 == DrawNodes(g, results[i], -1)
             g2 == MarkEnds(g1, results[i])
         IN  DrawPaths([g2 EXCEPT !.drawn = Append(@, i)], i + 1, inc, exc)

\* OnRefresh, run on the history as the handler calling Refresh() leaves it.
OnRefresh ==
    LET g == DrawPaths(ClearedGraph, 1, get_includes', get_excludes') IN
    /\ nodes_id2ea' = g.id2ea
    /\ edges' = g.edges
    /\ start_nodes' = g.starts
    /\ end_nodes' = g.ends
    /\ edge_nodes' = g.edgens
    /\ drawn' = g.drawn

\* AlleyCatGraph(results): nothing plotted, no pick pending.
GInit ==
    /\ results \in ResultLists
    /\ shown = FALSE
    /\ include_on_click = FALSE /\ exclude_on_click = FALSE
    /\ nodes_id2ea = <<>> /\ edges = {}
    /\ start_nodes = <<>> /\ end_nodes = <<>> /\ edge_nodes = <<>>
    /\ drawn = <<>>
    /\ cmd = "none"

\* No graph view is open (the other parts alone are modelled).
GIdle ==
    /\ results = <<>>
    /\ shown = FALSE
    /\ include_on_click = FALSE /\ exclude_on_click = FALSE
    /\ nodes_id2ea = <<>> /\ edges = {}
    /\ start_nodes = <<>> /\ end_nodes = <<>> /\ edge_nodes = <<>>
    /\ drawn = <<>>
    /\ cmd = "none"

\* Show(): the viewer opens, plots the graph and registers the commands.
Show ==
    /\ ~shown
    /\ cmd' = "show"
    /\ shown' = TRUE
    /\ UNCHANGED hvars
    /\ OnRefresh
    /\ UNCHANGED <<results, clickvars, obsvars, dbvars, scopevars, pvars>>

\* OnCommand(cmd_undo) that drops a pending pick and undoes all the same.
OnCommandUndoAlways ==
    /\ shown
    /\ cmd' = "undo"
    /\ include_on_click' = FALSE /\ exclude_on_click' = FALSE
    /\ undo
    /\ OnRefresh
    /\ UNCHANGED <<results, shown, obsvars, dbvars, scopevars, pvars>>

\* OnCommand(cmd_undo): cancel a pending pick, or else undo; then refresh.
OnCommandUndo ==
    /\ shown
    /\ cmd' = "undo"
    /\ IF include_on_click \/ exclude_on_click
       THEN /\ include_on_click' = FALSE /\ exclude_on_click' = FALSE
            /\ UNCHANGED hvars
       ELSE /\ undo
            /\ UNCHANGED clickvars
    /\ OnRefresh
    /\ UNCHANGED <<results, shown, obsvars, dbvars, scopevars, pvars>>

\* OnCommand(cmd_redo): redo, then refresh unless redo() raised.
OnCommandRedo ==
    /\ shown
    /\ cmd' = "redo"
    /\ redo
    /\ IF raised' THEN UNCHANGED graphvars ELSE OnRefresh
    /\ UNCHANGED <<results, shown, clickvars, obsvars, dbvars, scopevars,
                   pvars>>

\* OnCommand(cmd_include): the next click picks a node to include.
OnCommandInclude ==
    /\ shown
    /\ cmd' = "include"
    /\ include_on_click' = TRUE
    /\ UNCHANGED <<exclude_on_click, results, shown, graphvars, hvars,
                   obsvars, dbvars, scopevars, pvars>>

\* OnCommand(cmd_exclude): the next click picks a node to exclude.
OnCommandExclude ==
    /\ shown
    /\ cmd' = "exclude"
    /\ exclude_on_click' = TRUE
    /\ UNCHANGED <<include_on_click, results, shown, graphvars, hvars,
                   obsvars, dbvars, scopevars, pvars>>

\* OnCommand(cmd_reset): drop the pending picks, reset the history, refresh.
OnCommandReset ==
    /\ shown
    /\ cmd' = "reset"
    /\ include_on_click' = FALSE /\ exclude_on_click' = FALSE
    /\ reset
    /\ OnRefresh
    /\ UNCHANGED <<results, shown, obsvars, dbvars, scopevars, pvars>>

\* OnClick(node_id) on a node of the plotted graph.
OnClick ==
    /\ shown
    /\ cmd' = "click"
    /\ \E node_id \in 0..(Len(nodes_id2ea) - 1) :
         IF include_on_click
         THEN /\ add_include(nodes_id2ea[node_id + 1])
              /\ include_on_click' = FALSE
              /\ UNCHANGED exclude_on_click
         ELSE IF exclude_on_click
         THEN /\ add_exclude(nodes_id2ea[node_id + 1])
              /\ exclude_on_click' = FALSE
              /\ UNCHANGED include_on_click
         ELSE UNCHANGED <<hvars, clickvars>>
    /\ OnRefresh
    /\ UNCHANGED <<results, shown, obsvars, dbvars, scopevars, pvars>>

\* ---------------------------------------------------------- specifications

\* The history of one graph view.
Init == HInit /\ PIdle /\ GIdle /\ ScopeIdle

Next == AddInclude \/ AddExclude \/ Undo \/ Redo \/ Reset

Spec == Init /\ [][Next]_vars

\* The history with the reference linear history run side by side.
NextReplay ==
    ReplayAddInclude \/ ReplayAddExclude \/ ReplayUndo \/ ReplayRedo \/ ReplayReset

SpecReplay == Init /\ [][NextReplay]_vars

\* The history with the discarded constraints noted.
NextNoted ==
    NotedAddInclude \/ NotedAddExclude \/ NotedUndo \/ NotedRedo \/ NotedReset

SpecNoted == Init /\ [][NextNoted]_vars

\* One run of _build_paths on any database within the bounds.
InitPaths == HInit /\ PInit /\ GIdle /\ ScopeIdle

NextPaths == Expand \/ ForCaller \/ Discard \/ Finalize \/ Return

SpecPaths == InitPaths /\ [][NextPaths]_vars

\* One graph view on any list of paths within the bounds.
InitGraph == HInit /\ PIdle /\ GInit /\ ScopeIdle

NextGraph ==
    \/ Show
    \/ OnCommandUndo \/ OnCommandRedo
    \/ OnCommandInclude \/ OnCommandExclude
    \/ OnCommandReset
    \/ OnClick

SpecGraph == InitGraph /\ [][NextGraph]_vars

\* One construction of AlleyCatFunctionPaths or AlleyCatCodePaths, search
\* included, on any database within the bounds.
InitScope == HInit /\ GIdle /\ ScopeInit

NextScope ==
    \/ FunctionPathsInit \/ CodePathsInit
    \/ Expand \/ ForCaller \/ Discard \/ Finalize \/ Return

SpecScope == InitScope /\ [][NextScope]_vars

\* ------------------------------------------------- claims about the history

\* The cursors of the three logs.
Cursors == <<history_index, include_index, exclude_index>>

\* C1: after every sequence of addInclude/addExclude/undo/redo calls,
\* getIncludes() and getExcludes() equal the include and exclude sets of the
\* reference linear history run side by side.
C1_LinearReplay ==
    /\ get_includes = RefIncludes
    /\ get_excludes = RefExcludes

\* Nothing is undone: every cursor stands at the tail of its log.
NothingUndone ==
    /\ history # <<>>
    /\ history_index = Len(history) - 1
    /\ include_index = Len(includes) - 1
    /\ exclude_index = Len(excludes) - 1

\* C2: no operation of the history ever raises; undo() and redo() on a history
\* with no recorded action, and redo() when nothing is undone, leave
\* getIncludes(), getExcludes() and all cursors unchanged.
C2_NeverRaises ==
    [][/\ raised' = FALSE
       /\ (history = <<>> /\ op' \in {"undo", "redo"}) =>
              /\ get_includes' = get_includes
              /\ get_excludes' = get_excludes
              /\ Cursors' = Cursors
       /\ (op' = "redo" /\ NothingUndone) =>
              /\ get_includes' = get_includes
              /\ get_excludes' = get_excludes
              /\ Cursors' = Cursors]_vars

\* C3: an add after undos discards the undone constraints for good: a redo()
\* right after the add changes neither set, and no later undo/redo makes a
\* discarded constraint active again.
C3_DiscardedForGood ==
    [][/\ (op \in {"add_include", "add_exclude"} /\ op' = "redo") =>
              /\ get_includes' = get_includes
              /\ get_excludes' = get_excludes
       /\ Active' \cap discarded' = {}]_vars

\* C4: after n adds, k <= n undos and then j <= k redos, exactly the first
\* n-k+j added constraints are active (so k redos restore both sets).
C4_UndoRedoInverse ==
    phase = "redos" =>
        /\ get_includes = RefActive(Len(ref) - nundo + nredo, INCLUDE_ACTION)
        /\ get_excludes = RefActive(Len(ref) - nundo + nredo, EXCLUDE_ACTION)

\* C5 as stated: in every reachable state, the initial one and the one after
\* reset() included, each cursor lies in [-1, len(log) - 1].
C5_CursorInRange ==
    /\ include_index \in -1..(Len(includes) - 1)
    /\ exclude_index \in -1..(Len(excludes) - 1)

\* C5 as amended: a non-empty log's cursor lies in [-1, len(log) - 1]; the
\* cursor of a log that is still empty (initial state, after reset()) is 0,
\* and the active set of such a log is empty.
C5_CursorInRangeAmended ==
    /\ includes # <<>> => include_index \in -1..(Len(includes) - 1)
    /\ excludes # <<>> => exclude_index \in -1..(Len(excludes) - 1)
    /\ includes = <<>> => include_index = 0 /\ get_includes = {}
    /\ excludes = <<>> => exclude_index = 0 /\ get_excludes = {}

\* C5 witness: undo() has taken the cursor of a non-empty include log down to
\* -1 while the exclude log is still empty with its cursor at 0.
C5_Witness ==
    /\ op = "undo"
    /\ includes # <<>> /\ include_index = -1
    /\ excludes = <<>> /\ exclude_index = 0

\* --------------------------------------------- claims about the path search

\* A sequence of pairwise distinct nodes.
IsSimple(p) == \A i, j \in 1..Len(p) : i # j => p[i] # p[j]

\* Every sequence of at most NumFuncs functions.
NodeSeqs == UNION {[1..k -> Funcs] : k \in 1..NumFuncs}

\* The simple paths of the graph: each node references (calls) the next one.
GraphPaths ==
    {p \in NodeSeqs :
        IsSimple(p) /\ \A i \in 1..(Len(p) - 1) : p[i] \in Callers(p[i + 1])}

\* The simple paths of the graph from node a to node b.
SimplePaths(a, b) == {p \in GraphPaths : p[1] = a /\ Last(p) = b}

\* No cycle and no self-loop: no simple path whose last node references its first.
Acyclic == \A p \in GraphPaths : Last(p) \notin Callers(p[1])

\* The paths the search holds: finished, queued, and the one being extended.
HeldPaths ==
    Range(paths) \cup Range(partial_paths)
        \cup (IF pc = "for" THEN {base_path} ELSE {})

\* C6: the list of finished paths never holds more than limit (maxPaths) paths.
C6_AtMostLimitPaths == Len(paths) <= limit

\* C6 witness: the search returned with exactly limit paths, limit being one
\* of the small limits (so the count of paths is what ended the loop, or
\* ended it together with the empty queue).
C6_Witness ==
    /\ pc = "done"
    /\ limit \in 1..MaxLimit
    /\ Len(paths) = limit

\* C7: every finished path and every partial path has pairwise distinct nodes.
C7_PathsAreSimple == \A p \in HeldPaths : IsSimple(p)

\* C7 witness: a returned path of three or more nodes in a graph where a node
\* of the path is referenced by itself or by a later node of the path (a
\* self-loop or a cycle through the path).
C7_Witness ==
    /\ pc = "done"
    /\ \E p \in Range(paths) :
          /\ Len(p) >= 3
          /\ \E i, j \in 1..Len(p) : i <= j /\ p[j] \in Callers(p[i])

\* C8 as stated: with end not BADADDR, every returned path begins with the
\* start argument and ends with the end argument.
C8_StartFirstEndLast ==
    end # BADADDR =>
        \A p \in Range(paths) : p[1] = start /\ Last(p) = end

\* C8 as amended: with end not BADADDR, every returned path ends with the
\* start argument, and begins with the end argument when start # end.
C8_EndFirstStartLast ==
    end # BADADDR =>
        \A p \in Range(paths) :
            /\ Last(p) = start
            /\ start # end => p[1] = end

\* C8 witness: a returned path of three or more nodes between different
\* start and end.
C8_Witness ==
    /\ pc = "done"
    /\ start # end
    /\ \E p \in Range(paths) : Len(p) >= 3

\* C9: on an acyclic graph, with the limit above the node count and the path
\* count, the returned paths are exactly the simple paths between the end and
\* the start node.
C9_CompleteOnAcyclic ==
    (/\ pc = "done"
     /\ end # BADADDR
     /\ Acyclic
     /\ limit > NumFuncs
     /\ limit > Cardinality(GraphPaths))
        => Range(paths) = SimplePaths(end, start)

\* C10: with start = end = n and a positive limit, the search returns exactly
\* the single-node path <<n>>.
C10_DegeneratePath ==
    (pc = "done" /\ start = end /\ limit > 0) => paths = <<<<start>>>>

\* C11: with end = BADADDR (the start location lies in no function) and the
\* limit of the program, the search returns a non-empty list: the partial
\* paths whose frontier has no callers are finalized and returned.
C11_DeadEndsReturned ==
    (pc = "done" /\ end = BADADDR /\ limit = ALLEYCAT_LIMIT) => paths # <<>>

\* C12: with a limit of at least 1, the queue of partial paths never holds
\* more than limit (maxPaths) partial paths, not even in the middle of the
\* for loop over the callers of one frontier.
C12_QueueWithinLimit == limit >= 1 => Len(partial_paths) <= limit

\* C16: with start # end, when no simple path of the graph leads from end to
\* start (end = BADADDR included), the search returns the empty list.
C16_UnreachableEmpty ==
    (pc = "done" /\ start # end /\ SimplePaths(end, start) = {}) => paths = <<>>

\* C16 witness: the search returned nothing for an end node that is a
\* function referencing another one, while start has callers to follow and
\* lies on a cycle or has a self-loop.
C16_Witness ==
    /\ pc = "done" /\ paths = <<>>
    /\ start # end /\ end \in Funcs
    /\ SimplePaths(end, start) = {}
    /\ \E x \in xrefs : x[1] = end
    /\ Callers(start) # {}
    /\ ~Acyclic

\* C19: every two consecutive nodes u, v of a returned path are linked in the
\* graph: u is one of the callers found for v.
C19_RealPaths ==
    \A p \in Range(paths) :
        \A i \in 1..(Len(p) - 1) : p[i] \in Callers(p[i + 1])

\* C19 witness: a returned path of three or more nodes whose first node is
\* not a caller of its third (the links of the graph decide the path).
C19_Witness ==
    /\ pc = "done"
    /\ \E p \in Range(paths) : Len(p) >= 3 /\ p[1] \notin Callers(p[3])

\* C20: with a limit (maxLength) of at least 1, no partial path and no
\* finished path ever has more than limit nodes; an iteration whose head
\* partial path is limit nodes long removes it from the queue without
\* extending it, and finishes it only when it contains end.
C20_LengthCapped ==
    /\ [](limit >= 1 => \A p \in HeldPaths : Len(p) <= limit)
    /\ [][(pc = "while" /\ WhileCond /\ Len(Head(partial_paths)) >= limit) =>
            /\ partial_paths' = Tail(partial_paths)
            /\ paths' = IF end \in Range(Head(partial_paths))
                         THEN add_path(paths, Reverse(Head(partial_paths)))
                         ELSE paths]_vars

\* C20 witness: the head partial path is limit nodes long, for a small limit
\* of 2 or more, and its frontier has a caller outside the path that the
\* search would follow but for the cap.
C20_Witness ==
    /\ pc = "while" /\ WhileCond
    /\ limit \in 2..MaxLimit
    /\ Len(Head(partial_paths)) = limit
    /\ Callers(Last(Head(partial_paths))) \ Range(Head(partial_paths)) # {}

\* b to the power e (1 for e <= 0).
RECURSIVE Pow(_, _)
Pow(b, e) == IF e <= 0 THEN 1 ELSE b * Pow(b, e - 1)

\* The base of the weights: more than the callers one frontier can have.
RankBase == NumFuncs + 2

\* The weight of a queued partial path: the shorter, the heavier.
PathWeight(p) == Pow(RankBase, NumFuncs + 2 - Len(p))

\* The weight of one caller still to be handled by the for loop.
CallerWeight == Pow(RankBase, NumFuncs + 1 - Len(base_path)) + 1

RECURSIVE SumWeights(_)
SumWeights(ps) ==
    IF ps = <<>> THEN 0 ELSE PathWeight(Head(ps)) + SumWeights(Tail(ps))

\* A natural number measuring the work left: the weights of the queued
\* partial paths and of the callers still to be handled, and 1 until the
\* search has returned.
Rank ==
    SumWeights(partial_paths)
        + (IF pc = "for" THEN Cardinality(callers) * CallerWeight ELSE 0)
        + (IF pc = "done" THEN 0 ELSE 1)

\* C18: the search terminates on every graph, cyclic ones included: in every
\* state it has returned or can take a step, and every step strictly
\* decreases the natural number Rank (a popped path outweighs the longer
\* paths pushed for it), so every run returns after at most Rank steps.
C18_Terminates ==
    /\ [](pc = "done" \/ ENABLED NextPaths)
    /\ [][Rank' < Rank]_vars

\* C18 witness: the search returned, with the limit of the program, on a
\* graph where start references itself and lies on a cycle with another
\* function.
C18_Witness ==
    /\ pc = "done" /\ limit = ALLEYCAT_LIMIT
    /\ start \in Callers(start)
    /\ \E g \in Funcs \ {start} : g \in Callers(start) /\ start \in Callers(g)

\* The for loop over the callers of one frontier (lines 81-91) run to its end
\* on the lists ps (paths) and pp (partial_paths), the set cs of callers
\* being iterated in ascending order.
RECURSIVE ForAscending(_, _, _, _)
ForAscending(ps, pp, base, cs) ==
    IF cs = {} THEN <<ps, pp>>
    ELSE LET caller == CHOOSE c \in cs : \A d \in cs : c <= d
             rest == cs \ {caller}
         IN  IF LoopsBack(caller, base)
             THEN ForAscending(ps, pp, base, rest)
             ELSE IF caller = end
             THEN ForAscending(add_path(ps, Reverse(Append(base, caller))), pp, base, rest)
             ELSE ForAscending(ps, Append(pp, Append(base, caller)), base, rest)

\* The while loop of _build_paths (lines 61-99) run to its end on the lists
\* ps and pp with self.limit = lim and every set of callers iterated in
\* ascending order: the list of paths that run returns.
RECURSIVE WhileAscendingAt(_, _, _)
WhileAscendingAt(lim, ps, pp) ==
    IF ~(pp # <<>> /\ Len(ps) < lim /\ Len(pp) < lim) THEN ps
    ELSE LET found == IF Len(Head(pp)) < lim THEN Callers(Last(Head(pp))) ELSE {}
         IN  IF found # {}
             THEN LET r == ForAscending(ps, Tail(pp), Head(pp), found)
                  IN  WhileAscendingAt(lim, r[1], r[2])
             ELSE IF end \notin Range(Head(pp))
             THEN WhileAscendingAt(lim, ps, Tail(pp))
             ELSE WhileAscendingAt(lim, add_path(ps, Reverse(Head(pp))), Tail(pp))

\* The same run with the limit of the search at hand.
WhileAscending(ps, pp) == WhileAscendingAt(limit, ps, pp)

\* C13: two runs on the same graph, start, end and limit return the same set
\* of paths whatever the order in which they iterate the callers: every run
\* returns the set of the run that iterates them in ascending order.
C13_OrderIndependent ==
    pc = "done" => Range(paths) = Range(WhileAscending(<<>>, <<<<start>>>>))

\* -------------------------------------------- claims about the graph view

\* C14: once the view is shown, a path of results is plotted exactly when
\* every node of get_includes() and no node of get_excludes() occurs in it.
C14_FilterExact ==
    shown =>
        \A i \in 1..Len(results) :
            (i \in Range(drawn)) <=>
                /\ get_includes \subseteq Range(results[i])
                /\ get_excludes \cap Range(results[i]) = {}

\* C14 witness: with two nodes included, one path is plotted and another,
\* which holds only one of the two, is not.
C14_Witness ==
    /\ shown
    /\ Cardinality(get_includes) = 2
    /\ drawn # <<>>
    /\ \E i \in 1..Len(results) :
          /\ i \notin Range(drawn)
          /\ Range(results[i]) \cap get_includes # {}

\* ------------------------------------- claims about the two constructors

\* The function holding an address, 0 when none does.
FuncAt(ea) == func_of[ea]

\* Some basic block of the function holding ea spans ea.
HasBlock(ea) == \E block \in FlowChart(FuncAt(ea)) : block[1] <= ea /\ ea < block[2]

\* C15: once a constructor has run, AlleyCatCodePaths has raised "not part of
\* a function" when start_ea or end_ea lies in no function, "not part of the
\* same function" when they lie in different functions, and "no code block"
\* when they lie in one function and one of them in none of its blocks;
\* AlleyCatFunctionPaths has raised "not part of a function" when end_ea lies
\* in no function. Whenever an exception was raised the search never
\* started: there is no path, no partial path, and nothing left to run.
C15_ResolverErrors ==
    pc # "init" =>
        /\ (klass = "AlleyCatCodePaths" /\ (FuncAt(start_ea) = 0 \/ FuncAt(end_ea) = 0))
              => error[1] = "not part of a function"
        /\ (/\ klass = "AlleyCatCodePaths"
            /\ FuncAt(start_ea) # 0 /\ FuncAt(end_ea) # 0
            /\ FuncAt(start_ea) # FuncAt(end_ea))
              => error[1] = "not part of the same function"
        /\ (/\ klass = "AlleyCatCodePaths"
            /\ FuncAt(start_ea) # 0 /\ FuncAt(start_ea) = FuncAt(end_ea)
            /\ (~HasBlock(start_ea) \/ ~HasBlock(end_ea)))
              => error[1] = "no code block"
        /\ (klass = "AlleyCatFunctionPaths" /\ FuncAt(end_ea) = 0)
              => error[1] = "not part of a function"
        /\ error # NoError =>
              /\ pc = "raised"
              /\ paths = <<>> /\ partial_paths = <<>>
              /\ ~ENABLED NextScope

\* C15 witness: AlleyCatCodePaths raised "no code block" for an end_ea that
\* lies in the function of start_ea, which does have a block.
C15_Witness ==
    /\ pc = "raised" /\ klass = "AlleyCatCodePaths"
    /\ error = <<"no code block", end_ea>>
    /\ HasBlock(start_ea)

\* C17: in block granularity (AlleyCatCodePaths) every node of every partial
\* and finished path is the entry of a basic block of the function that
\* holds start_ea and end_ea.
C17_BlockNodesOnly ==
    klass = "AlleyCatCodePaths" =>
        \A p \in HeldPaths : \A n \in Range(p) :
            /\ n \in Addrs
            /\ block_of[n] = n
            /\ func_of[n] = func_of[start_ea]

\* ------------------------------------- claims about the order of discovery

\* The lists of a list of lists come in non-decreasing length.
NonDecreasing(ps) ==
    \A i \in 1..(Len(ps) - 1) : Len(ps[i]) <= Len(ps[i + 1])

\* C22: in every state of a search the queue of partial paths is in
\* non-decreasing order of length, and so is the list of finished paths
\* (paths are found shortest first).
C22_ShortestFirst ==
    /\ NonDecreasing(partial_paths)
    /\ NonDecreasing(paths)

\* C22 witness: the queue holds partial paths of two lengths while the
\* finished paths are of two lengths as well.
C22_Witness ==
    /\ \E i, j \in 1..Len(partial_paths) :
          Len(partial_paths[i]) < Len(partial_paths[j])
    /\ \E i, j \in 1..Len(paths) : Len(paths[i]) < Len(paths[j])

\* The list a is the beginning of the list b.
IsPrefix(a, b) == Len(a) <= Len(b) /\ \A i \in 1..Len(a) : a[i] = b[i]

Pending == include_on_click \/ exclude_on_click

\* The three logs of the history and their cursors.
Logs == <<history, includes, excludes, Cursors>>

\* C23: an Undo command given while a pick is pending only drops the pick:
\* the logs and cursors of the history stay as they are. A click makes at
\* most one constraint active and changes at most one of the two logs; a
\* click with no pick pending leaves the logs and cursors as they are.
C23_PendingPick ==
    [][/\ (cmd' = "undo" /\ Pending) =>
              /\ Logs' = Logs
              /\ ~Pending'
       /\ cmd' = "click" =>
              /\ Cardinality(Active' \ Active) <= 1
              /\ includes' = includes \/ excludes' = excludes
       /\ (cmd' = "click" /\ ~Pending) => Logs' = Logs]_vars

\* C23 witness: the last handler was the Undo command and the last call on
\* the history is still an add that could be undone: the command dropped a
\* pending pick instead of calling undo().
C23_Witness ==
    /\ cmd = "undo" /\ ~Pending
    /\ op \in {"add_include", "add_exclude"}
    /\ history_index = Len(history) - 1 /\ history_index >= 0

====
